---- MODULE Spec2Model ----
(***************************************************************************)
(* Minesweeper knowledge-based AI (src/minesweeper.py).                    *)
(*                                                                         *)
(* The board (class Minesweeper) is fixed at construction.  The AI         *)
(* (class MinesweeperAI) owns moves_made, mines, safes and the list        *)
(* knowledge of Sentence objects.  Python lists are modelled as sequences  *)
(* and a `for x in lst` loop as the list iterator it is: an index that is  *)
(* compared with the CURRENT length of the list on every step, so that a   *)
(* removal during the loop shifts the tail and the element after the       *)
(* removed one is skipped.  Sentence objects are mutable and shared        *)
(* between knowledge and the snapshot taken by itertools.combinations, so  *)
(* inside one add_knowledge call they live in a heap (a sequence of        *)
(* records indexed by object identity) and knowledge is a sequence of      *)
(* identities.  The iteration order of a Python set is not fixed by the    *)
(* language; every order is a possible outcome.                            *)
(***************************************************************************)
EXTENDS Integers, Sequences, FiniteSets, TLC

\* Board dimensions and the largest number of mines placed on it.
Height == 2
Width == 4
MaxMines == 2

\* The largest number of direct mark_mine / mark_safe calls in a row.
MaxMarks == 1

\* The largest cell set and the largest count of a Sentence constructed on
\* its own.
MaxCells == 3
MaxCount == 2

\* The factor of the retry budget of make_random_move.
RetryFactor == 10

None == <<>>

Cells == (0 .. Height - 1) \X (0 .. Width - 1)

VARIABLES
    board,       \* Minesweeper.mines: the cells that hold a mine
    moves_made,  \* MinesweeperAI.moves_made
    mines,       \* MinesweeperAI.mines
    safes,       \* MinesweeperAI.safes
    knowledge,   \* MinesweeperAI.knowledge: sequence of [cells, count]
    last,        \* the last add_knowledge call: its arguments and what it derived
    ret          \* the value a move query returned, until the game loop takes it

vars == <<board, moves_made, mines, safes, knowledge, last, ret>>

----------------------------------------------------------------------------
\* Sentence

Sentence(cells, count) == [cells |-> cells, count |-> count]

\* Sentence.__eq__
SentenceEq(a, b) == a.cells = b.cells /\ a.count = b.count

known_mines(s) == IF Cardinality(s.cells) = s.count THEN s.cells ELSE {}

known_safes(s) == IF s.count = 0 THEN s.cells ELSE {}

\* Sentence.mark_mine without `self.count -= 1`.
Sentence_mark_mine_keeps_count(s, cell) ==
    IF cell \in s.cells
    THEN [cells |-> s.cells \ {cell}, count |-> s.count]
    ELSE s

Sentence_mark_mine(s, cell) ==
    IF cell \in s.cells
    THEN [cells |-> s.cells \ {cell}, count |-> s.count - 1]
    ELSE s

Sentence_mark_safe(s, cell) ==
    IF cell \in s.cells
    THEN [cells |-> s.cells \ {cell}, count |-> s.count]
    ELSE s

----------------------------------------------------------------------------
\* Python list primitives used by the code

\* list.remove(x) on a list without x raises; with x it drops the FIRST
\* element equal to x.
RemoveAt(seq, j) == [k \in 1 .. Len(seq) - 1 |-> IF k < j THEN seq[k] ELSE seq[k + 1]]

\* knowledge.remove(sentence): the first identity whose object equals s
\* under Sentence.__eq__.
KnowledgeRemove(heap, kn, s) ==
    LET hits == {j \in 1 .. Len(kn) : SentenceEq(heap[kn[j]], s)}
        first == CHOOSE j \in hits : \A k \in hits : j <= k
    IN  IF hits = {} THEN kn ELSE RemoveAt(kn, first)

\* `sentence in knowledge`
InKnowledge(heap, kn, s) == \E j \in 1 .. Len(kn) : SentenceEq(heap[kn[j]], s)

----------------------------------------------------------------------------
\* MinesweeperAI.mark_mine / mark_safe.  st = [mines, safes, heap, kn, ...].

RECURSIVE MarkLoop(_, _, _, _)
MarkLoop(st, cell, i, asMine) ==
    IF i > Len(st.kn) THEN st
    ELSE
        LET id == st.kn[i]
            s2 == IF asMine THEN Sentence_mark_mine(st.heap[id], cell)
                  ELSE Sentence_mark_safe(st.heap[id], cell)
            heap2 == [st.heap EXCEPT ![id] = s2]
            kn2 == IF Cardinality(s2.cells) = 0
                   THEN KnowledgeRemove(heap2, st.kn, s2)
                   ELSE st.kn
        IN  MarkLoop([st EXCEPT !.heap = heap2, !.kn = kn2], cell, i + 1, asMine)

mark_mine(st, cell) ==
    MarkLoop([st EXCEPT !.mines = @ \cup {cell}], cell, 1, TRUE)

mark_safe(st, cell) ==
    MarkLoop([st EXCEPT !.safes = @ \cup {cell}], cell, 1, FALSE)

\* `for cell in sentence.cells.copy(): self.mark_X(cell)`: the copy is taken
\* once, and is walked in any order.  S is a set of [st, rem] pairs.
MarkAllStep(S, asMine) ==
    UNION { { [st |-> IF asMine THEN mark_mine(p.st, c) ELSE mark_safe(p.st, c),
               rem |-> p.rem \ {c}] : c \in p.rem } : p \in S }

RECURSIVE MarkAllIter(_, _, _)
MarkAllIter(S, n, asMine) ==
    IF n = 0 THEN S ELSE MarkAllIter(MarkAllStep(S, asMine), n - 1, asMine)

mark_all_mines(st, cells) ==
    { p.st : p \in MarkAllIter({[st |-> st, rem |-> cells]}, Cardinality(cells), TRUE) }

mark_all_safe(st, cells) ==
    { p.st : p \in MarkAllIter({[st |-> st, rem |-> cells]}, Cardinality(cells), FALSE) }

----------------------------------------------------------------------------
\* Neighbourhoods

\* The candidates of the two nested range() loops, in loop order.
Around(cell) ==
    << <<cell[1] - 1, cell[2] - 1>>, <<cell[1] - 1, cell[2]>>, <<cell[1] - 1, cell[2] + 1>>,
       <<cell[1], cell[2] - 1>>,     <<cell[1], cell[2]>>,     <<cell[1], cell[2] + 1>>,
       <<cell[1] + 1, cell[2] - 1>>, <<cell[1] + 1, cell[2]>>, <<cell[1] + 1, cell[2] + 1>> >>

InBounds(c) == 0 <= c[1] /\ c[1] < Height /\ 0 <= c[2] /\ c[2] < Width

\* MinesweeperAI.get_neighbors: a list, in loop order.
get_neighbors(cell) ==
    LET Keep(c) == InBounds(c) /\ c # cell
    IN  SelectSeq(Around(cell), Keep)

Range(seq) == {seq[k] : k \in 1 .. Len(seq)}

\* Minesweeper.nearby_mines
nearby_mines(b, cell) ==
    Cardinality({c \in Range(Around(cell)) : c # cell /\ InBounds(c) /\ c \in b})

\* MinesweeperAI.mines_in_neighbors
mines_in_neighbors(st, cell) ==
    Cardinality({c \in Range(get_neighbors(cell)) : c \in st.mines})

\* MinesweeperAI.unknown_neighbors: removes from the list it is iterating,
\* so the element that follows a removed one is never examined.
RECURSIVE UnknownLoop(_, _, _)
UnknownLoop(st, nb, i) ==
    IF i > Len(nb) THEN nb
    ELSE IF nb[i] \in st.mines \/ nb[i] \in st.safes
         THEN UnknownLoop(st, RemoveAt(nb, i), i + 1)
         ELSE UnknownLoop(st, nb, i + 1)

unknown_neighbors(st, cell) == UnknownLoop(st, get_neighbors(cell), 1)

----------------------------------------------------------------------------
\* add_knowledge

\* Lines 227-233: the pass over knowledge that resolves sentences directly.
\* Returns the set of states the pass can end in.
RECURSIVE DirectLoop(_, _)
DirectLoop(st, i) ==
    IF i > Len(st.kn) THEN {st}
    ELSE
        LET s == st.heap[st.kn[i]]
        IN  IF Cardinality(s.cells) = 0 \/ s.count < 0
            THEN DirectLoop([st EXCEPT !.kn = KnowledgeRemove(st.heap, st.kn, s)], i + 1)
            ELSE IF s.count = 0
            THEN UNION {DirectLoop(t, i + 1) : t \in mark_all_safe(st, s.cells)}
            ELSE IF s.count = Cardinality(s.cells)
            THEN UNION {DirectLoop(t, i + 1) : t \in mark_all_mines(st, s.cells)}
            ELSE DirectLoop(st, i + 1)

\* Lines 238-244 and 246-252: what is done with a derived sentence.
Derive(st, new) ==
    LET st1 == [st EXCEPT !.derived = @ \cup {new}]
    IN  IF InKnowledge(st1.heap, st1.kn, new) THEN {st1}
        ELSE IF new.count = 0 THEN mark_all_safe(st1, new.cells)
        ELSE {[st1 EXCEPT !.heap = Append(@, new), !.kn = Append(@, Len(st1.heap) + 1)]}

\* The body of the loop over pairs, for the objects s1 and s2 as they are now.
PairStep(st, s1, s2) ==
    IF Cardinality(s1.cells) = Cardinality(s2.cells) THEN {st}
    ELSE IF s1.cells \subseteq s2.cells
    THEN Derive(st, Sentence(s2.cells \ s1.cells, s2.count - s1.count))
    ELSE IF s2.cells \subseteq s1.cells
    THEN Derive(st, Sentence(s1.cells \ s2.cells, s1.count - s2.count))
    ELSE {st}

\* itertools.combinations(self.knowledge, 2): the pool is a tuple built from
\* the list when the loop starts; pairs come in lexicographic index order.
RECURSIVE PairLoop(_, _, _, _)
PairLoop(st, pool, a, b) ==
    IF a >= Len(pool) THEN {st}
    ELSE
        LET after == PairStep(st, st.heap[pool[a]], st.heap[pool[b]])
            na == IF b < Len(pool) THEN a ELSE a + 1
            nb == IF b < Len(pool) THEN b + 1 ELSE a + 2
        IN  UNION {PairLoop(t, pool, na, nb) : t \in after}

\* The pairs of pool sentences, one a strict subset of the other, as the
\* pairwise pass finds them when it starts.
SubsetPairs(st) ==
    { [A |-> st.heap[st.kn[i]], B |-> st.heap[st.kn[j]]] :
        <<i, j>> \in { p \in (1 .. Len(st.kn)) \X (1 .. Len(st.kn)) :
                        /\ st.heap[st.kn[p[1]]].cells \subseteq st.heap[st.kn[p[2]]].cells
                        /\ st.heap[st.kn[p[1]]].cells # st.heap[st.kn[p[2]]].cells } }

PairwisePass(st) == PairLoop([st EXCEPT !.pairs = SubsetPairs(st)], st.kn, 1, 2)

\* Lines 222-226.
NewSentence(st, cell, count) ==
    Sentence(Range(unknown_neighbors(st, cell)), count - mines_in_neighbors(st, cell))

\* MinesweeperAI.add_knowledge: the set of states the call can return in.
add_knowledge(st0, cell, count) ==
    LET st1 == mark_safe(st0, cell)
        new == NewSentence(st1, cell, count)
        st2 == [st1 EXCEPT !.heap = Append(@, new), !.kn = Append(@, Len(st1.heap) + 1)]
    IN  UNION {PairwisePass(t) : t \in DirectLoop(st2, 1)}

\* The AI as a call sees it: every Sentence of knowledge is an object.
Enter == [mines |-> mines, safes |-> safes, heap |-> knowledge,
          kn |-> [k \in 1 .. Len(knowledge) |-> k], derived |-> {}, pairs |-> {}]

KnowledgeOf(st) == [k \in 1 .. Len(st.kn) |-> st.heap[st.kn[k]]]

----------------------------------------------------------------------------
NoCall == [op |-> "none"]

Init ==
    /\ board \in {b \in SUBSET Cells : Cardinality(b) <= MaxMines}
    /\ moves_made = {}
    /\ mines = {}
    /\ safes = {}
    /\ knowledge = <<>>
    /\ last = NoCall
    /\ ret = NoCall

\* A truthful reveal: the game loop calls add_knowledge on a cell that is no
\* mine and was not played, with the board's count.
AddKnowledge(cell) ==
    /\ ret = NoCall
    /\ cell \notin board
    /\ cell \notin moves_made
    /\ \E st \in add_knowledge(Enter, cell, nearby_mines(board, cell)) :
        /\ moves_made' = moves_made \cup {cell}
        /\ mines' = st.mines
        /\ safes' = st.safes
        /\ knowledge' = KnowledgeOf(st)
        /\ last' = [op |-> "add_knowledge", cell |-> cell,
                    count |-> nearby_mines(board, cell),
                    derived |-> st.derived, pairs |-> st.pairs]
    /\ UNCHANGED <<board, ret>>

\* MinesweeperAI.make_safe_move: `for cell in self.safes`, in any order, up
\* to the first cell that passes the test.  S holds the sets of cells a walk
\* may still have before it; the result is the set of values returned.
RECURSIVE SafeMoveLoop(_, _, _)
SafeMoveLoop(S, played, known) ==
    IF S = {} THEN {}
    ELSE
        LET Passes(c) == c \notin played /\ c \notin known
            hit == {c \in UNION S : Passes(c)}
            exhausted == IF {} \in S THEN {None} ELSE {}
            rest == UNION { {rem \ {c} : c \in {x \in rem : ~Passes(x)}} : rem \in S }
        IN  hit \cup exhausted \cup SafeMoveLoop(rest, played, known)

\* make_safe_move without the `cell not in self.moves_made` test.
make_safe_move_replays(safe, played, known) == SafeMoveLoop({safe}, {}, known)

make_safe_move(safe, played, known) == SafeMoveLoop({safe}, played, known)

\* MinesweeperAI.make_random_move: each of the height * width * 10 attempts
\* draws any cell of the board, returns it if it passes the test and goes on
\* to the next attempt if not.  Attempt k is therefore made iff k = 1 or some
\* cell fails the test (the k - 1 draws before it were all rejected), and the
\* loop runs out iff it has no attempts or some cell fails the test.  The
\* result is the set of [value, attempts] the call can return with.
RetryLimit == Height * Width * RetryFactor

RandomLoop(played, known) ==
    LET Passes(c) == c \notin played /\ c \notin known
        accepted == {c \in Cells : Passes(c)}
        rejected == {c \in Cells : ~Passes(c)}
        made == {k \in 1 .. RetryLimit : k = 1 \/ rejected # {}}
    IN  {[value |-> c, attempts |-> k] : c \in accepted, k \in made}
        \cup (IF RetryLimit = 0 \/ rejected # {}
              THEN {[value |-> None, attempts |-> RetryLimit]} ELSE {})

\* make_random_move without the `random_move not in self.mines` test.
make_random_move_into_mines(played, known) == RandomLoop(played, {})

make_random_move(played, known) == RandomLoop(played, known)

\* make_safe_move that also records the cell it returns in moves_made.
MakeSafeMove_records_move ==
    /\ ret = NoCall
    /\ \E v \in make_safe_move(safes, moves_made, mines) :
        /\ ret' = [op |-> "make_safe_move", value |-> v, attempts |-> 0]
        /\ moves_made' = IF v = None THEN moves_made ELSE moves_made \cup {v}
    /\ UNCHANGED <<board, mines, safes, knowledge, last>>

MakeSafeMove ==
    /\ ret = NoCall
    /\ \E v \in make_safe_move(safes, moves_made, mines) :
        ret' = [op |-> "make_safe_move", value |-> v, attempts |-> 0]
    /\ UNCHANGED <<board, moves_made, mines, safes, knowledge, last>>

MakeRandomMove ==
    /\ ret = NoCall
    /\ \E r \in make_random_move(moves_made, mines) :
        ret' = [op |-> "make_random_move", value |-> r.value, attempts |-> r.attempts]
    /\ UNCHANGED <<board, moves_made, mines, safes, knowledge, last>>

\* The game loop takes the returned move; the AI is as the query found it.
TakeMove ==
    /\ ret # NoCall
    /\ ret' = NoCall
    /\ UNCHANGED <<board, moves_made, mines, safes, knowledge, last>>

\* Direct calls of MinesweeperAI.mark_mine and mark_safe, on any cell of the
\* board, after truthful play.
Marked == last.op \in {"mark_mine", "mark_safe"}

Marks == IF Marked THEN last.marks ELSE 0

MarkMine(cell) ==
    /\ ret = NoCall
    /\ Marks < MaxMarks
    /\ LET st == mark_mine(Enter, cell)
       IN  /\ mines' = st.mines
           /\ safes' = st.safes
           /\ knowledge' = KnowledgeOf(st)
    /\ last' = [op |-> "mark_mine", cell |-> cell, marks |-> Marks + 1]
    /\ UNCHANGED <<board, moves_made, ret>>

MarkSafe(cell) ==
    /\ ret = NoCall
    /\ Marks < MaxMarks
    /\ LET st == mark_safe(Enter, cell)
       IN  /\ mines' = st.mines
           /\ safes' = st.safes
           /\ knowledge' = KnowledgeOf(st)
    /\ last' = [op |-> "mark_safe", cell |-> cell, marks |-> Marks + 1]
    /\ UNCHANGED <<board, moves_made, ret>>

Next == \E cell \in Cells : AddKnowledge(cell)

Spec == Init /\ [][Next]_vars

NextMoves ==
    \/ \E cell \in Cells : AddKnowledge(cell)
    \/ MakeSafeMove
    \/ MakeRandomMove
    \/ TakeMove

SpecMoves == Init /\ [][NextMoves]_vars

NextMark ==
    \/ \E cell \in Cells : ~Marked /\ AddKnowledge(cell)
    \/ \E cell \in Cells : MarkMine(cell)
    \/ \E cell \in Cells : MarkSafe(cell)

SpecMark == Init /\ [][NextMark]_vars

\* A Sentence on its own: up to MaxCells cells of the board, any count from
\* 0 to MaxCount, held as the only element of knowledge of an AI that made no move.
InitSentence ==
    /\ board = {}
    /\ moves_made = {}
    /\ mines = {}
    /\ safes = {}
    /\ knowledge \in {<<Sentence(cs, n)>> :
                        cs \in {x \in SUBSET Cells : Cardinality(x) <= MaxCells},
                        n \in 0 .. MaxCount}
    /\ last = NoCall
    /\ ret = NoCall

\* sentence.mark_mine(cell) and sentence.mark_safe(cell), called on the object.
SentenceMarkMine(cell) ==
    /\ knowledge' = <<Sentence_mark_mine(knowledge[1], cell)>>
    /\ last' = [op |-> "Sentence.mark_mine", cell |-> cell, before |-> knowledge[1]]
    /\ UNCHANGED <<board, moves_made, mines, safes, ret>>

SentenceMarkSafe(cell) ==
    /\ knowledge' = <<Sentence_mark_safe(knowledge[1], cell)>>
    /\ last' = [op |-> "Sentence.mark_safe", cell |-> cell, before |-> knowledge[1]]
    /\ UNCHANGED <<board, moves_made, mines, safes, ret>>

NextSentence ==
    \/ \E cell \in Cells : SentenceMarkMine(cell)
    \/ \E cell \in Cells : SentenceMarkSafe(cell)

SpecSentence == InitSentence /\ [][NextSentence]_vars

----------------------------------------------------------------------------
\* Properties.  Every state after Init is the state an add_knowledge call
\* returned in (last.op = "add_knowledge"), reached by truthful calls only.

Returned == last.op = "add_knowledge"

KnowledgeSet == Range(knowledge)

\* C1: the sets mines and safes are disjoint in every state reachable by
\* truthful add_knowledge calls.
C1_MinesSafesDisjoint == mines \cap safes = {}

\* C2: under truthful play no cell of safes is a mine of the board.
C2_SafesAreNotMines == safes \cap board = {}

\* C3: under truthful play every cell of mines is a mine of the board.
C3_MinesAreMines == mines \subseteq board

\* C4: after each add_knowledge call returns, every Sentence of knowledge
\* has 0 <= count <= |cells|.
C4_CountWithinCells ==
    Returned => \A s \in KnowledgeSet : 0 <= s.count /\ s.count <= Cardinality(s.cells)

\* C5: after each add_knowledge call returns, no cell of any Sentence of
\* knowledge is in safes or in mines.
C5_SentencesHoldUnknownCells ==
    Returned => \A s \in KnowledgeSet : s.cells \cap (safes \cup mines) = {}

\* C8: when a truthful add_knowledge(cell, 0) returns, every in-bounds
\* neighbour of cell is in safes.
C8_ZeroCountNeighboursSafe ==
    (Returned /\ last.count = 0) => Range(get_neighbors(last.cell)) \subseteq safes

\* C9: for sentences A, B of knowledge with A.cells a strict subset of
\* B.cells when the pairwise pass starts, the call derives
\* (B.cells - A.cells, B.count - A.count), and when that count equals the
\* number of derived cells, those cells are in mines when the call returns.
C9_SubsetResolution ==
    Returned =>
        \A p \in last.pairs :
            LET d == Sentence(p.B.cells \ p.A.cells, p.B.count - p.A.count)
            IN  /\ d \in last.derived
                /\ d.count = Cardinality(d.cells) => d.cells \subseteq mines

\* C10: when add_knowledge returns, knowledge holds no Sentence with a
\* non-empty cell set and count 0.
C10_NoZeroCountSentence ==
    Returned => \A s \in KnowledgeSet : ~(s.cells # {} /\ s.count = 0)

\* C11: when add_knowledge returns, knowledge holds no Sentence with a
\* non-empty cell set and count = |cells|.
C11_NoFullCountSentence ==
    Returned => \A s \in KnowledgeSet : ~(s.cells # {} /\ s.count = Cardinality(s.cells))

\* C12: when add_knowledge returns, knowledge holds no Sentence with an
\* empty cell set and no Sentence with a negative count.
C12_NoInvalidSentence ==
    Returned => \A s \in KnowledgeSet : s.cells # {} /\ s.count >= 0

\* C16: the Sentence that add_knowledge(cell, count) appends has as cells
\* exactly the in-bounds neighbours of cell that are in neither mines nor
\* safes at that moment, and as count the reported count minus the number
\* of neighbours of cell that are in mines.
C16_AppendedSentence ==
    [][last'.op = "add_knowledge" =>
        LET cell == last'.cell
            around == Range(get_neighbors(cell))
        IN  NewSentence(mark_safe(Enter, cell), cell, last'.count)
                = Sentence({c \in around : c \notin mines /\ c \notin safes},
                           last'.count - Cardinality(around \cap mines))]_vars

\* C18: when add_knowledge returns, resolution has reached a fixed point: no
\* Sentence of knowledge has count 0 or count = |cells|, and for every two
\* Sentences of knowledge with one cell set a strict subset of the other,
\* the derived Sentence is in knowledge or its cells are in safes or mines.
C18_FixedPoint ==
    Returned =>
        /\ \A s \in KnowledgeSet : s.count # 0 /\ s.count # Cardinality(s.cells)
        /\ \A a, b \in KnowledgeSet :
            (a.cells \subseteq b.cells /\ a.cells # b.cells) =>
                LET d == Sentence(b.cells \ a.cells, b.count - a.count)
                IN  d \in KnowledgeSet \/ d.cells \subseteq (safes \cup mines)

\* C20: under truthful play the count of every Sentence of knowledge is the
\* number of board mines among its cells.
C20_SentencesAreTrue ==
    \A s \in KnowledgeSet : s.count = Cardinality(s.cells \cap board)

----------------------------------------------------------------------------
\* Move queries, checked under SpecMoves: ret holds what the query returned
\* and the AI is still as the query found it.

Eligible == {c \in safes : c \notin moves_made /\ c \notin mines}

\* C6: make_safe_move returns a cell of safes that is in neither moves_made
\* nor mines whenever there is one, and None exactly when there is none.
C6_SafeMoveIsEligible ==
    ret.op = "make_safe_move" =>
        /\ Eligible # {} => ret.value \in Eligible
        /\ ret.value = None <=> Eligible = {}

\* make_safe_move returned a cell although it had to pass over safe cells
\* that were already played.
C6_Witness ==
    /\ ret.op = "make_safe_move"
    /\ ret.value \in Cells
    /\ safes \cap moves_made # {}
    /\ Cardinality(Eligible) > 1

\* C7: make_random_move makes at most height * width * 10 attempts, never
\* returns a cell of moves_made or mines, and on a board whose cells are all
\* in moves_made or mines it returns None.
C7_RandomMoveBounded ==
    ret.op = "make_random_move" =>
        /\ ret.attempts <= Height * Width * RetryFactor
        /\ ret.value # None => (ret.value \in Cells /\ ret.value \notin moves_made \cup mines)
        /\ Cells \subseteq moves_made \cup mines => ret.value = None

\* Every cell is played or a known mine, and make_random_move gave up after
\* its last attempt.
C7_Witness ==
    /\ ret.op = "make_random_move"
    /\ Cells \subseteq moves_made \cup mines
    /\ mines \ moves_made # {}
    /\ ret.value = None
    /\ ret.attempts = Height * Width * RetryFactor

\* C15: make_safe_move leaves moves_made, safes, mines and knowledge as they
\* were, whatever it returns.
C15_SafeMoveReadOnly ==
    [][ret'.op = "make_safe_move" => UNCHANGED <<moves_made, safes, mines, knowledge>>]_vars

\* make_safe_move returned a cell of an AI that holds sentences and mines.
C15_Witness ==
    /\ ret.op = "make_safe_move"
    /\ ret.value \in Cells
    /\ knowledge # <<>>
    /\ mines # {}

\* C19: under truthful play make_safe_move never returns a cell that is a
\* mine on the board.
C19_SafeMoveNotMine ==
    ret.op = "make_safe_move" => ret.value \notin board

----------------------------------------------------------------------------
\* Direct mark calls, checked under SpecMark.

\* C13: calling mark_mine(cell) again right after mark_mine(cell) returned,
\* or mark_safe(cell) again right after mark_safe(cell) returned, leaves
\* mines, safes and knowledge as the first call left them.
C13_MarkIdempotent ==
    Marked =>
        LET again == IF last.op = "mark_mine" THEN mark_mine(Enter, last.cell)
                     ELSE mark_safe(Enter, last.cell)
        IN  /\ again.mines = mines
            /\ again.safes = safes
            /\ KnowledgeOf(again) = knowledge

\* C17: when mark_mine(cell) or mark_safe(cell) returns, no Sentence of
\* knowledge contains cell and no Sentence of knowledge has zero cells.
C17_MarkPropagates ==
    Marked => \A s \in KnowledgeSet : last.cell \notin s.cells /\ s.cells # {}

----------------------------------------------------------------------------
\* Sentence on its own, checked under SpecSentence.

\* C14: Sentence.mark_mine(cell) removes cell and lowers count by exactly 1
\* when cell is a member, Sentence.mark_safe(cell) removes cell and keeps
\* count when cell is a member, and each leaves cells and count as they were
\* when cell is no member; after either, cell is no member.
C14_SentenceMark ==
    /\ last.op = "Sentence.mark_mine" =>
        /\ last.cell \in last.before.cells =>
            /\ knowledge[1].cells = last.before.cells \ {last.cell}
            /\ knowledge[1].count = last.before.count - 1
        /\ last.cell \notin last.before.cells => knowledge[1] = last.before
        /\ last.cell \notin knowledge[1].cells
    /\ last.op = "Sentence.mark_safe" =>
        /\ last.cell \in last.before.cells =>
            /\ knowledge[1].cells = last.before.cells \ {last.cell}
            /\ knowledge[1].count = last.before.count
        /\ last.cell \notin last.before.cells => knowledge[1] = last.before
        /\ last.cell \notin knowledge[1].cells

\* mark_mine took a member out of a sentence that still has cells, after an
\* earlier call had already changed the sentence.
C14_Witness ==
    /\ last.op = "Sentence.mark_mine"
    /\ last.cell \in last.before.cells
    /\ knowledge[1].cells # {}
    /\ knowledge[1].count < 0

====
